---- MODULE Spec2Model ----
(***************************************************************************)
(* Model of the mocha functional-test driver of tasty                      *)
(* (src/src/drivers/func/mocha/index.js): the action classifier            *)
(* splitActions, the request pipeline request/mockRequest/realRequest,     *)
(* the case builders test/tests and the run orchestrator run.              *)
(*                                                                         *)
(* JavaScript values are records [type, v]: type is the result of typeof   *)
(* and v the literal text of the value, so values of different JavaScript  *)
(* types stay distinct and comparable.                                     *)
(***************************************************************************)
EXTENDS Integers, Sequences, FiniteSets

VARIABLES
  \* ---- splitActions
  actions,        \* the action list handed to splitActions
  sets,           \* the groups splitActions returned
  splitPc,        \* "idle" | "done"
  \* ---- request()
  mock,           \* the mock argument of request()
  capture,        \* the capture argument of request()
  resource,       \* the Resource argument of request(): [res, capturedData]
  reqPc,          \* position of the returned operation: "idle" | "awaiting" | "resolved" | "rejected"
  reqParams,      \* params derived by getParams(context)
  transport,      \* what the Transport (axios) does with the call
  transportCalls, \* requests handed to the Transport, in order
  reqError,       \* the error the returned operation rejected with
  \* ---- tests()
  title,          \* the title template
  suites,         \* suiteParams
  assertions,     \* the assertions mapping, as <<[key, value], ...>> in key order
  tastyContext,   \* tasty.context
  isParallel,     \* the mode of the current tests() call
  testsPc,        \* "idle" | "hookPending" | "hook" | "tests"
  registered,     \* what the current call registered with Mocha, in order
  inv,            \* per parameter, the state of its request: "none" | "awaiting" | "resolved" | "rejected"
  responses,      \* the responses array of the parallel branch (references to Resources)
  cur,            \* the index of the test Mocha runs next
  verdicts,       \* per mode, the verdicts of the tests run so far
  callsLog,       \* the assertion operations invoked on a Resource, in order
  modesRun,       \* the modes whose tests have all run
  requestLog,     \* the invocations of the request function, in order
  \* ---- run()
  files,          \* the Mocha instances handed to run(): what the run of each does
  runParallel,    \* the isParallel argument of run()
  runPc,          \* "idle" | "installed" | "running" | "returned" | "rejected" | "stalled"
  logInstalled,   \* whether the native logger is intercepted
  fileState,      \* per file: "waiting" | "running" | "done"
  collected,      \* the stats the completion callbacks delivered, by file index
  runResult,      \* what run() returned
  events,         \* the file runs started and completed, in order
  runStats,       \* the stats list run() handed to formatStats
  asyncConcat,    \* how the installed async/concat orders its results: "collection" | "arrival"
  \* ---- formatStats()
  fmtIn,          \* the stats list handed to formatStats
  fmtPar,         \* the isParallel argument of formatStats
  fmtPerm,        \* a rearrangement of the list, as a permutation of its indices
  fmtOut,         \* what formatStats returned for the list
  fmtPermOut,     \* what formatStats returned for the rearranged list
  fmtPc,          \* "idle" | "done" | "both"
  \* ---- suite()
  thisArg,        \* the receiver suite() is called with: "driver" | "tasty"
  hooks,          \* the hooks suite() registered with Mocha, in order
  invoked,        \* the test actions suite() invoked with tasty, in order
  executed,       \* per hook Mocha ran, the actions it executed, in order
  hookFailed,     \* the hooks that threw when Mocha ran them
  suitePc,        \* "idle" | "registered"
  \* ---- test()
  caseAssertions, \* the assertions mapping of test(), as <<[key, value], ...>> in key order
  caseContext,    \* tasty.context at the time the test runs
  casePc,         \* "idle" | "awaiting" | "done"
  caseLog,        \* the assertion operations the test body invoked, in order
  caseVerdict     \* "none" | "pass" | "fail"

splitVars == <<actions, sets, splitPc>>
requestVars == <<mock, capture, resource, reqPc, reqParams, transport, transportCalls, reqError>>
testsVars == <<title, suites, assertions, tastyContext, isParallel, testsPc, registered,
               inv, responses, cur, verdicts, callsLog, modesRun, requestLog>>
runVars == <<files, runParallel, runPc, logInstalled, fileState, collected, runResult,
             events, runStats, asyncConcat>>
statsVars == <<fmtIn, fmtPar, fmtPerm, fmtOut, fmtPermOut, fmtPc>>
suiteVars == <<thisArg, hooks, invoked, executed, hookFailed, suitePc>>
caseVars == <<caseAssertions, caseContext, casePc, caseLog, caseVerdict>>
vars == <<splitVars, requestVars, testsVars, runVars, statsVars, suiteVars, caseVars>>

Range(s) == {s[i] : i \in 1..Len(s)}

RECURSIVE SeqsUpTo(_, _)
SeqsUpTo(S, n) ==
  IF n = 0 THEN {<<>>}
  ELSE LET shorter == SeqsUpTo(S, n - 1)
       IN shorter \cup {Append(s, x) : s \in {t \in shorter : Len(t) = n - 1}, x \in S}

(***************************************************************************)
(* JavaScript values                                                       *)
(***************************************************************************)
Undefined == [type |-> "undefined", v |-> "undefined"]
Num(n) == [type |-> "number", v |-> n]
Str(s) == [type |-> "string", v |-> s]
Bool(b) == [type |-> "boolean", v |-> b]
Obj(o) == [type |-> "object", v |-> o]

\* ToBoolean, as the conditional operator of line 47 applies it
Truthy(x) ==
  CASE x.type = "undefined" -> FALSE
    [] x.type = "number" -> x.v \notin {"0", "NaN"}
    [] x.type = "string" -> x.v # ""
    [] x.type = "boolean" -> x.v = "true"
    [] OTHER -> x.v # "null"

(***************************************************************************)
(* splitActions                                                            *)
(*                                                                         *)
(* An action is [id, type, isArray, name, builder]: id tells two objects   *)
(* of the same shape apart, type is its typeof, isArray Array.isArray,     *)
(* name its .name, and builder whether the single-test or parameterized-   *)
(* tests builder produced it.  Two actions are equal exactly when they are *)
(* the same object (===); the same object may stand at several places of   *)
(* the caller's list.                                                      *)
(***************************************************************************)
MaxActions == 3

\* The shapes of action a caller supplies.  The builders return functions
\* named test and tests; a caller's own hook may carry any name.
ActionShapes ==
  { [type |-> "function", isArray |-> FALSE, name |-> "test",  builder |-> TRUE],
    [type |-> "function", isArray |-> FALSE, name |-> "tests", builder |-> TRUE],
    [type |-> "function", isArray |-> FALSE, name |-> "test",  builder |-> FALSE],
    [type |-> "function", isArray |-> FALSE, name |-> "hook",  builder |-> FALSE],
    [type |-> "object",   isArray |-> TRUE,  name |-> "",      builder |-> FALSE] }

\* the names that tell two objects of one shape apart
ObjectIds == {"f", "g"}

\* the objects a caller can put into the list
ActionObjects ==
  {[id |-> i, type |-> s.type, isArray |-> s.isArray, name |-> s.name,
    builder |-> s.builder] : i \in ObjectIds, s \in ActionShapes}

\* the caller's lists: any object at any place, the same one possibly twice
ActionLists == SeqsUpTo(ActionObjects, MaxActions)

EmptySets == [before |-> <<>>, beforeEach |-> <<>>, after |-> <<>>,
              afterEach |-> <<>>, tests |-> <<>>]

GroupNames == {"before", "beforeEach", "after", "afterEach", "tests"}

\* line 224: only the name 'test' is recognised
IsTestActionOnlyTest(action) ==
  action.type = "function" /\ action.name = "test"

\* line 224
IsTestAction(action) ==
  action.type = "function" /\ (action.name = "test" \/ action.name = "tests")

\* the reducer with the return of line 227 missing: a test action falls
\* through to the hook branches as well
splitStepFallThrough(acc, action) ==
  LET a1 == IF IsTestAction(action)
            THEN [acc EXCEPT !.tests = Append(@, action)] ELSE acc
  IN IF Len(a1.tests) > 0
     THEN IF action.isArray THEN [a1 EXCEPT !.afterEach = Append(@, action)]
                            ELSE [a1 EXCEPT !.after = Append(@, action)]
     ELSE IF action.isArray THEN [a1 EXCEPT !.beforeEach = Append(@, action)]
                            ELSE [a1 EXCEPT !.before = Append(@, action)]

\* the reducer with the Array.isArray branches of lines 231-235 exchanged
splitStepSwapped(acc, action) ==
  IF IsTestAction(action) THEN [acc EXCEPT !.tests = Append(@, action)]
  ELSE IF Len(acc.tests) > 0
       THEN IF action.isArray THEN [acc EXCEPT !.after = Append(@, action)]
                              ELSE [acc EXCEPT !.afterEach = Append(@, action)]
       ELSE IF action.isArray THEN [acc EXCEPT !.beforeEach = Append(@, action)]
                              ELSE [acc EXCEPT !.before = Append(@, action)]

\* lines 223-246: the reducer of splitActions
splitStep(acc, action) ==
  IF IsTestAction(action) THEN [acc EXCEPT !.tests = Append(@, action)]
  ELSE IF Len(acc.tests) > 0
       THEN IF action.isArray THEN [acc EXCEPT !.afterEach = Append(@, action)]
                              ELSE [acc EXCEPT !.after = Append(@, action)]
       ELSE IF action.isArray THEN [acc EXCEPT !.beforeEach = Append(@, action)]
                              ELSE [acc EXCEPT !.before = Append(@, action)]

\* Array.prototype.reduce, left to right
RECURSIVE reduce(_, _)
reduce(list, acc) ==
  IF list = <<>> THEN acc ELSE reduce(Tail(list), splitStep(acc, Head(list)))

\* lines 222-254
splitActions(list) == reduce(list, EmptySets)

SplitIdle == actions = <<>> /\ sets = EmptySets /\ splitPc = "idle"

InitSplit == actions \in ActionLists /\ sets = EmptySets /\ splitPc = "idle"

SplitActions ==
  /\ splitPc = "idle"
  /\ sets' = splitActions(actions)
  /\ splitPc' = "done"
  /\ UNCHANGED <<actions, requestVars, testsVars, runVars, statsVars, suiteVars, caseVars>>

(***************************************************************************)
(* request(getParams, mock, capture, resource)                             *)
(*                                                                         *)
(* A response is [type |-> "object", status, data]; a Transport error is   *)
(* [type |-> "error", response], response being Undefined when the error   *)
(* carries none.  The Transport maps the url of a call to what it does     *)
(* with it: [kind |-> "ok", value |-> response] or                         *)
(* [kind |-> "error", value |-> error].                                    *)
(***************************************************************************)
Response(status, data) == [type |-> "object", status |-> status, data |-> data]
TransportError(response) == [type |-> "error", response |-> response]

NoResource == [res |-> Undefined, capturedData |-> Undefined]

EmptyContext == [k \in {} |-> Undefined]

\* { ...context, suite } of lines 98-101 and 119-122
WithSuite(context, suite) ==
  [k \in DOMAIN context \cup {"suite"} |-> IF k = "suite" THEN suite ELSE context[k]]

\* the caller's getParams, called at line 44: the url names the suite
getParams(context) ==
  [method |-> "GET",
   url |-> IF "suite" \in DOMAIN context THEN "/" \o context["suite"].v ELSE "/"]

\* mockRequest with its two parameters taken in the wrong order
mockRequestSwapped(params, m) == Response(Undefined, Str(params.url))

\* lines 197-201
mockRequest(params, m) == Response(Undefined, m)

\* realRequest without the catch of lines 212-214: every Transport failure
\* propagates
realRequestNoCatch(outcome) ==
  IF outcome.kind = "ok"
  THEN [threw |-> FALSE, value |-> outcome.value]
  ELSE [threw |-> TRUE, value |-> outcome.value]

\* lines 203-215, applied to what the awaited Transport call did: the value
\* returned, or the error thrown, by realRequest
realRequest(outcome) ==
  IF outcome.kind = "ok"
  THEN [threw |-> FALSE, value |-> outcome.value]
  ELSE [threw |-> FALSE, value |-> outcome.value.response]

\* utils.captureData(capture, res): the field of the response the capture
\* names
captureData(cap, res) ==
  IF cap.type = "undefined" \/ res.type = "undefined" THEN Undefined
  ELSE IF cap.v = "status" THEN res.status
  ELSE IF cap.v = "data" THEN res.data
  ELSE Undefined

\* line 47: the condition of the conditional operator
UsesMock(m) == Truthy(m)

\* lines 47-54, from the response on: the Resource the operation returns
withResponse(rsrc, cap, res) ==
  [res |-> res, capturedData |-> captureData(cap, res)]

Mocks == {Undefined, Num("0"), Str(""), Bool("false"), Num("1"), Str("P"), Obj("{a:1}")}
Captures == {Undefined, Str("status"), Str("data")}
Responses == {Response(Num("200"), Str("a")), Response(Num("404"), Str("b"))}
TransportOutcomes ==
  {[kind |-> "ok", value |-> r] : r \in Responses}
  \cup {[kind |-> "error", value |-> TransportError(r)] : r \in Responses \cup {Undefined}}

RequestIdle ==
  /\ mock = Undefined /\ capture = Undefined /\ resource = NoResource
  /\ reqPc = "idle" /\ reqParams = Undefined
  /\ transport = [u \in {} |-> Undefined] /\ transportCalls = <<>>
  /\ reqError = Undefined

InitRequest ==
  /\ mock \in Mocks
  /\ capture \in Captures
  /\ resource = NoResource
  /\ reqPc = "idle"
  /\ reqParams = Undefined
  /\ transport \in [{"/"} -> TransportOutcomes]
  /\ transportCalls = <<>>
  /\ reqError = Undefined

\* lines 43-49, up to the await: the operation is invoked with the default
\* context {}
RequestCall ==
  /\ reqPc = "idle"
  /\ LET params == getParams(EmptyContext)
     IN /\ reqParams' = params
        /\ IF UsesMock(mock)
           THEN /\ resource' = withResponse(resource, capture, mockRequest(params, mock))
                /\ reqPc' = "resolved"
                /\ UNCHANGED transportCalls
           ELSE /\ transportCalls' = Append(transportCalls, params)
                /\ reqPc' = "awaiting"
                /\ UNCHANGED resource
  /\ UNCHANGED <<mock, capture, transport, reqError, splitVars, testsVars, runVars, statsVars, suiteVars, caseVars>>

\* lines 49-54: the Transport call settles and the operation resumes
RequestResume ==
  /\ reqPc = "awaiting"
  /\ LET r == realRequest(transport[reqParams.url])
     IN IF r.threw
        THEN /\ reqPc' = "rejected"
             /\ reqError' = r.value
             /\ UNCHANGED resource
        ELSE /\ reqPc' = "resolved"
             /\ resource' = withResponse(resource, capture, r.value)
             /\ UNCHANGED reqError
  /\ UNCHANGED <<mock, capture, reqParams, transport, transportCalls, splitVars, testsVars, runVars, statsVars, suiteVars, caseVars>>

(***************************************************************************)
(* test() and tests()                                                      *)
(*                                                                         *)
(* The request function handed to tests() is one built by request(): it    *)
(* closes over the single Resource of its own call.  Mocha runs the        *)
(* registered before hook first and then the registered tests one after    *)
(* the other.                                                              *)
(***************************************************************************)
MaxSuites == 2

SuiteParams == {Str("a"), Str("b")}

\* utils.evalTpl(template, data): the placeholder {{suite}} replaced by
\* data.suite
evalTpl(tpl, data) ==
  CASE tpl = "{{suite}}" -> data.suite.v
    [] tpl = "case {{suite}}" -> "case " \o data.suite.v
    [] OTHER -> tpl

\* lines 108-110 and 125-127
resolveAssertion(value, suite) ==
  IF value.type = "string" THEN Str(evalTpl(value.v, [suite |-> suite])) ELSE value

\* the property key a value is converted to by resource[value]
PropertyKey(x) == x.v

\* the assertion operations a Resource exposes
ResourceOps == {"status", "data"}

\* resource[name](expected, ctx): "ok", or "throws" when the property is
\* not a function, when there is no response to read or when the response
\* differs from the expected value
invoke(rsrc, name, expected, ctx) ==
  IF name \notin ResourceOps THEN "throws"
  ELSE IF rsrc.res.type # "object" THEN "throws"
  ELSE IF name = "status" THEN (IF rsrc.res.status = expected THEN "ok" ELSE "throws")
  ELSE (IF rsrc.res.data = expected THEN "ok" ELSE "throws")

\* line 112: responses[i][key](assertion, { suite })
parallelCall(key, assertion) == [method |-> key, expected |-> assertion]

\* line 129: resource[assertion](key, { suite })
seriesCall(key, assertion) == [method |-> PropertyKey(assertion), expected |-> Str(key)]

\* lines 107-113 and 124-130: Object.keys(assertions).forEach(...), from
\* the k-th key on; the first operation that throws ends the test body
RECURSIVE runAssertions(_, _, _, _, _, _)
runAssertions(par, i, rsrc, suite, k, log) ==
  IF k > Len(assertions) THEN [verdict |-> "pass", log |-> log]
  ELSE LET a == resolveAssertion(assertions[k].value, suite)
           c == IF par THEN parallelCall(assertions[k].key, a)
                       ELSE seriesCall(assertions[k].key, a)
           ctx == [suite |-> suite]
           out == invoke(rsrc, c.method, c.expected, ctx)
           entry == [par |-> par, test |-> i, key |-> assertions[k].key,
                     method |-> c.method, expected |-> c.expected,
                     context |-> ctx, res |-> rsrc.res, outcome |-> out]
       IN IF out = "throws"
          THEN [verdict |-> "fail", log |-> Append(log, entry)]
          ELSE runAssertions(par, i, rsrc, suite, k + 1, Append(log, entry))

ModeName(par) == IF par THEN "parallel" ELSE "series"

\* the Resource a reference of the responses array points to
Deref(ref) == resource

\* a variant that registers the tests under the template as it stands
registrationsUnresolved(par) ==
  (IF par THEN <<[kind |-> "before", title |-> ""]>> ELSE <<>>)
  \o [i \in 1..Len(suites) |-> [kind |-> "it", title |-> title]]

\* lines 96 and 105-115, 117-118: what tests() registers with Mocha
registrations(par) ==
  (IF par THEN <<[kind |-> "before", title |-> ""]>> ELSE <<>>)
  \o [i \in 1..Len(suites) |->
        [kind |-> "it", title |-> evalTpl(title, [suite |-> suites[i]])]]

\* the shared context after { ...tasty.context, suite } written as
\* Object.assign(tasty.context, { suite })
sharedContextAssigned(ctx, suite) == WithSuite(ctx, suite)

\* lines 98-101 and 119-122: the object spread builds a new object and
\* leaves tasty.context as it is
sharedContextAfter(ctx, suite) == ctx

\* an invocation of the request function by the test of parameter i
Requested(par, i, ctx) == [par |-> par, test |-> i, context |-> ctx]

\* lines 97-102, up to the await: async/parallel starts the request of
\* every parameter, in order, without waiting.  Returns the Resource, the
\* Transport calls, the state of each request, the shared context and the
\* invocations after the n first.
RECURSIVE startAll(_)
startAll(n) ==
  IF n = 0 THEN [rsrc |-> resource, calls |-> transportCalls, st |-> <<>>,
                 shared |-> tastyContext, log |-> requestLog]
  ELSE LET prev == startAll(n - 1)
           ctx == WithSuite(prev.shared, suites[n])
           params == getParams(ctx)
           shared == sharedContextAfter(prev.shared, suites[n])
           log == Append(prev.log, Requested(TRUE, n, ctx))
       IN IF UsesMock(mock)
          THEN [rsrc |-> withResponse(prev.rsrc, capture, mockRequest(params, mock)),
                calls |-> prev.calls,
                st |-> Append(prev.st, "resolved"),
                shared |-> shared, log |-> log]
          ELSE [rsrc |-> prev.rsrc,
                calls |-> Append(prev.calls, params),
                st |-> Append(prev.st, "awaiting"),
                shared |-> shared, log |-> log]

AssertionMaps ==
  { <<>>,
    <<[key |-> "status", value |-> Num("200")]>>,
    <<[key |-> "data", value |-> Str("{{suite}}")]>>,
    <<[key |-> "status", value |-> Num("200")], [key |-> "data", value |-> Str("{{suite}}")]>> }

TestsTransports ==
  [{"/" \o s.v : s \in SuiteParams} ->
     {[kind |-> "ok", value |-> r] : r \in Responses}
     \cup {[kind |-> "error", value |-> TransportError(Undefined)]}]

TestsIdle ==
  /\ title = "" /\ suites = <<>> /\ assertions = <<>> /\ tastyContext = EmptyContext
  /\ isParallel = FALSE /\ testsPc = "idle" /\ registered = <<>>
  /\ inv = <<>> /\ responses = <<>> /\ cur = 1
  /\ verdicts = [parallel |-> <<>>, series |-> <<>>]
  /\ callsLog = <<>> /\ modesRun = {} /\ requestLog = <<>>

InitTests ==
  /\ title = "case {{suite}}"
  /\ suites \in SeqsUpTo(SuiteParams, MaxSuites)
  /\ assertions \in AssertionMaps
  /\ tastyContext = [token |-> Str("t")]
  /\ isParallel = FALSE /\ testsPc = "idle" /\ registered = <<>>
  /\ inv = <<>> /\ responses = <<>> /\ cur = 1
  /\ verdicts = [parallel |-> <<>>, series |-> <<>>]
  /\ callsLog = <<>> /\ modesRun = {} /\ requestLog = <<>>
  /\ mock \in {Undefined, Str("P")}
  /\ capture = Undefined
  /\ resource = NoResource
  /\ reqPc = "idle" /\ reqParams = Undefined /\ reqError = Undefined
  /\ transport \in TestsTransports
  /\ transportCalls = <<>>

\* what no step of tests() touches
testsFrame == <<mock, capture, reqPc, reqParams, transport, reqError, splitVars, runVars,
                statsVars, suiteVars, caseVars>>
inputsFrame == <<title, suites, assertions>>

\* lines 92-134: tests() registers the hook and the tests of one mode
TestsCall(par) ==
  /\ testsPc = "idle"
  /\ ModeName(par) \notin modesRun
  /\ isParallel' = par
  /\ registered' = registrations(par)
  /\ testsPc' = IF par THEN "hookPending" ELSE "tests"
  /\ inv' = [i \in 1..Len(suites) |-> "none"]
  /\ responses' = <<>>
  /\ cur' = 1
  /\ UNCHANGED <<inputsFrame, tastyContext, requestLog, verdicts, callsLog, modesRun, resource, transportCalls, testsFrame>>

\* lines 96-102: Mocha runs the before hook, which starts every request
HookStart ==
  /\ testsPc = "hookPending"
  /\ LET r == startAll(Len(suites))
     IN /\ resource' = r.rsrc
        /\ transportCalls' = r.calls
        /\ inv' = r.st
        /\ tastyContext' = r.shared
        /\ requestLog' = r.log
  /\ testsPc' = "hook"
  /\ UNCHANGED <<inputsFrame, isParallel, registered, responses, cur, verdicts,
                 callsLog, modesRun, testsFrame>>

\* lines 47-54 within the hook: the Transport call of parameter i settles,
\* in any order, and its request resumes
HookRequestSettle(i) ==
  /\ testsPc = "hook"
  /\ inv[i] = "awaiting"
  /\ LET r == realRequest(transport[getParams(WithSuite(tastyContext, suites[i])).url])
     IN IF r.threw
        THEN /\ inv' = [inv EXCEPT ![i] = "rejected"]
             /\ UNCHANGED resource
        ELSE /\ inv' = [inv EXCEPT ![i] = "resolved"]
             /\ resource' = withResponse(resource, capture, r.value)
  /\ UNCHANGED <<inputsFrame, tastyContext, requestLog, isParallel, testsPc, registered, responses, cur, verdicts,
                 callsLog, modesRun, transportCalls, testsFrame>>

\* line 97: every request has resolved, the hook stores the results and
\* completes
HookDone ==
  /\ testsPc = "hook"
  /\ \A i \in 1..Len(suites) : inv[i] = "resolved"
  /\ responses' = [i \in 1..Len(suites) |-> "resource"]
  /\ testsPc' = "tests"
  /\ UNCHANGED <<inputsFrame, tastyContext, requestLog, isParallel, registered, inv, cur, verdicts, callsLog,
                 modesRun, resource, transportCalls, testsFrame>>

\* lines 106-114: Mocha runs the next test of the parallel branch
ParallelTest ==
  /\ testsPc = "tests" /\ isParallel
  /\ cur <= Len(suites)
  /\ LET r == runAssertions(TRUE, cur, Deref(responses[cur]), suites[cur], 1, callsLog)
     IN /\ callsLog' = r.log
        /\ verdicts' = [verdicts EXCEPT !.parallel = Append(@, r.verdict)]
  /\ cur' = cur + 1
  /\ UNCHANGED <<inputsFrame, tastyContext, requestLog, isParallel, testsPc, registered, inv, responses, modesRun,
                 resource, transportCalls, testsFrame>>

\* lines 118-122, up to the await: Mocha runs the next test of the series
\* branch, which issues its request; with a mock the operation writes the
\* Resource and resolves at once, and the body waits at the await
SeriesTestStart ==
  /\ testsPc = "tests" /\ ~isParallel
  /\ cur <= Len(suites)
  /\ inv[cur] = "none"
  /\ tastyContext' = sharedContextAfter(tastyContext, suites[cur])
  /\ requestLog' = Append(requestLog,
                          Requested(FALSE, cur, WithSuite(tastyContext, suites[cur])))
  /\ LET params == getParams(WithSuite(tastyContext, suites[cur]))
     IN IF UsesMock(mock)
        THEN /\ resource' = withResponse(resource, capture, mockRequest(params, mock))
             /\ inv' = [inv EXCEPT ![cur] = "resolved"]
             /\ UNCHANGED transportCalls
        ELSE /\ transportCalls' = Append(transportCalls, params)
             /\ inv' = [inv EXCEPT ![cur] = "awaiting"]
             /\ UNCHANGED resource
  /\ UNCHANGED <<inputsFrame, isParallel, testsPc, registered, responses, modesRun,
                 callsLog, verdicts, cur, testsFrame>>

\* lines 47-54 within the series test: the Transport call settles and the
\* operation resumes, writes the Resource and resolves
SeriesRequestSettle ==
  /\ testsPc = "tests" /\ ~isParallel
  /\ cur <= Len(suites)
  /\ inv[cur] = "awaiting"
  /\ LET r == realRequest(transport[getParams(WithSuite(tastyContext, suites[cur])).url])
     IN IF r.threw
        THEN /\ inv' = [inv EXCEPT ![cur] = "rejected"]
             /\ UNCHANGED resource
        ELSE /\ inv' = [inv EXCEPT ![cur] = "resolved"]
             /\ resource' = withResponse(resource, capture, r.value)
  /\ UNCHANGED <<inputsFrame, tastyContext, requestLog, isParallel, testsPc, registered,
                 responses, cur, verdicts, callsLog, modesRun, transportCalls, testsFrame>>

\* lines 119 and 124-130: the test body resumes from its await, a turn
\* after the operation settled, and goes on with its assertions
SeriesTestResume ==
  /\ testsPc = "tests" /\ ~isParallel
  /\ cur <= Len(suites)
  /\ inv[cur] \in {"resolved", "rejected"}
  /\ IF inv[cur] = "rejected"
     THEN /\ verdicts' = [verdicts EXCEPT !.series = Append(@, "fail")]
          /\ UNCHANGED callsLog
     ELSE LET a == runAssertions(FALSE, cur, resource, suites[cur], 1, callsLog)
          IN /\ callsLog' = a.log
             /\ verdicts' = [verdicts EXCEPT !.series = Append(@, a.verdict)]
  /\ cur' = cur + 1
  /\ UNCHANGED <<inputsFrame, tastyContext, requestLog, isParallel, testsPc, registered,
                 inv, responses, modesRun, resource, transportCalls, testsFrame>>

\* Mocha has run every test the call registered
TestsFinish ==
  /\ testsPc = "tests"
  /\ cur > Len(suites)
  /\ testsPc' = "idle"
  /\ modesRun' = modesRun \cup {ModeName(isParallel)}
  /\ UNCHANGED <<inputsFrame, tastyContext, requestLog, isParallel, registered, inv, responses, cur, verdicts,
                 callsLog, resource, transportCalls, testsFrame>>

(***************************************************************************)
(* run() and formatStats()                                                 *)
(*                                                                         *)
(* A per-file stats record has the eight fields of Mocha's runner.stats,   *)
(* all numbers; Absent marks a field the record does not have.  NaN and    *)
(* Null stand for the JavaScript values NaN and null.                      *)
(***************************************************************************)
MaxFiles == 2

Absent == -1
NaN == -2
Null == -3

\* a variant of _.get that ignores the default
GetNoDefault(stat, field, dflt) == stat[field]

\* _.get(stat, field, dflt)
Get(stat, field, dflt) == IF stat[field] = Absent THEN dflt ELSE stat[field]

\* a + b on JavaScript numbers, b possibly undefined
Plus(a, b) == IF a = NaN \/ b = NaN \/ b = Absent THEN NaN ELSE a + b

\* String(n) for a non-negative integer
RECURSIVE ToString(_)
ToString(n) ==
  LET digit(d) == CASE d = 0 -> "0" [] d = 1 -> "1" [] d = 2 -> "2" [] d = 3 -> "3"
                    [] d = 4 -> "4" [] d = 5 -> "5" [] d = 6 -> "6" [] d = 7 -> "7"
                    [] d = 8 -> "8" [] OTHER -> "9"
  IN IF n < 10 THEN digit(n) ELSE ToString(n \div 10) \o digit(n % 10)

\* a variant of the loop body that assigns the failures instead of adding them
formatStepOverwrite(res, stat, par) ==
  LET summed == [res EXCEPT !.suites = Plus(@, Get(stat, "suites", 0)),
                            !.tests = Plus(@, Get(stat, "tests", 0)),
                            !.passes = Plus(@, Get(stat, "passes", 0)),
                            !.pending = Plus(@, Get(stat, "pending", 0)),
                            !.failures = Plus(0, stat.failures)]
  IN IF par
     THEN [summed EXCEPT
             !.end = IF Get(stat, "duration", 0) > res.duration
                     THEN Get(stat, "end", 0) ELSE @,
             !.duration = IF Get(stat, "duration", 0) > res.duration
                          THEN Get(stat, "duration", 0) ELSE @]
     ELSE [summed EXCEPT !.duration = @ + Get(stat, "duration", 0)]

\* lines 177-190: the body of stats.forEach
formatStep(res, stat, par) ==
  LET summed == [res EXCEPT !.suites = Plus(@, Get(stat, "suites", 0)),
                            !.tests = Plus(@, Get(stat, "tests", 0)),
                            !.passes = Plus(@, Get(stat, "passes", 0)),
                            !.pending = Plus(@, Get(stat, "pending", 0)),
                            !.failures = Plus(@, stat.failures)]
  IN IF par
     THEN [summed EXCEPT
             !.end = IF Get(stat, "duration", 0) > res.duration
                     THEN Get(stat, "end", 0) ELSE @,
             !.duration = IF Get(stat, "duration", 0) > res.duration
                          THEN Get(stat, "duration", 0) ELSE @]
     ELSE [summed EXCEPT !.duration = @ + Get(stat, "duration", 0)]

RECURSIVE formatLoop(_, _, _)
formatLoop(res, stats, par) ==
  IF stats = <<>> THEN res
  ELSE formatLoop(formatStep(res, Head(stats), par), Tail(stats), par)

\* a variant that reads the end from the first record
formatStatsEndOfFirst(stats, par) ==
  LET n == Len(stats)
      res0 == [start |-> IF n = 0 THEN 0 ELSE Get(stats[1], "start", 0),
               end |-> IF par THEN Null
                       ELSE IF n = 0 THEN 0 ELSE Get(stats[1], "end", 0),
               suites |-> 0, tests |-> 0, passes |-> 0, pending |-> 0,
               failures |-> 0, duration |-> 0]
      res == formatLoop(res0, stats, par)
  IN [res EXCEPT !.duration = ToString(@) \o "ms"]

\* lines 165-195
formatStats(stats, par) ==
  LET n == Len(stats)
      res0 == [start |-> IF n = 0 THEN 0 ELSE Get(stats[1], "start", 0),
               end |-> IF par THEN Null
                       ELSE IF n = 0 THEN 0 ELSE Get(stats[n], "end", 0),
               suites |-> 0, tests |-> 0, passes |-> 0, pending |-> 0,
               failures |-> 0, duration |-> 0]
      res == formatLoop(res0, stats, par)
  IN [res EXCEPT !.duration = ToString(@) \o "ms"]

StatsChoices ==
  { [start |-> 0, end |-> 1, suites |-> 1, tests |-> 2, passes |-> 2, pending |-> 0,
     failures |-> 0, duration |-> 1],
    [start |-> 1, end |-> 3, suites |-> 1, tests |-> 2, passes |-> 1, pending |-> 0,
     failures |-> 1, duration |-> 2] }

\* what running a file does: test.run() either throws while it loads the
\* file, or runs it and calls back with runner.stats
FileRuns == [throws : BOOLEAN, stats : StatsChoices]

NoStats == [start |-> Absent, end |-> Absent, suites |-> Absent, tests |-> Absent,
            passes |-> Absent, pending |-> Absent, failures |-> Absent,
            duration |-> Absent]

\* The list concat resolves with is put together inside async, which
\* index.js only requires (lines 6-8): run() hands it to formatStats as it
\* comes (lines 33-37) and does not order it itself.  async 2.5 and later
\* return the results in the order of the collection; async 2.0 to 2.4
\* append them as the callbacks arrive.  Nothing in the sources says which
\* async is installed.
ConcatKinds == {"collection", "arrival"}

RunIdle ==
  /\ files = <<>> /\ runParallel = FALSE /\ runPc = "idle" /\ logInstalled = FALSE
  /\ fileState = <<>> /\ collected = <<>> /\ runResult = NoStats
  /\ events = <<>> /\ runStats = <<>> /\ asyncConcat = "collection"

InitRun ==
  /\ files \in SeqsUpTo(FileRuns, MaxFiles)
  /\ runParallel \in BOOLEAN
  /\ runPc = "idle"
  /\ logInstalled = FALSE
  /\ fileState = [i \in 1..Len(files) |-> "waiting"]
  /\ collected = [i \in 1..Len(files) |-> NoStats]
  /\ runResult = NoStats
  /\ events = <<>>
  /\ runStats = <<>>
  /\ asyncConcat \in ConcatKinds

\* lines 33-35 with concat taken in both modes
startsAtOnceAlways(par) == TRUE

\* lines 33-35: concat starts the runs of all files at once, concatSeries
\* one after the other
startsAtOnce(par) == par

\* lines 33-35: the list concat and concatSeries resolve with, from the
\* results by file index and the order the callbacks arrived in
concatResults(kind, byIndex, doneOrder) ==
  IF kind = "collection" THEN byIndex
  ELSE [k \in 1..Len(doneOrder) |-> byIndex[doneOrder[k]]]

Started(i) == [ev |-> "start", file |-> i]
Completed(i) == [ev |-> "done", file |-> i]

\* the files in the order their runs completed
RECURSIVE DoneOrder(_)
DoneOrder(evs) ==
  IF evs = <<>> THEN <<>>
  ELSE IF Head(evs).ev = "done" THEN <<Head(evs).file>> \o DoneOrder(Tail(evs))
  ELSE DoneOrder(Tail(evs))

\* the files async/concat starts in its synchronous loop: all of them, up
\* to and without the first whose run() throws
StartedByConcat ==
  {i \in 1..Len(files) : \A j \in 1..i : ~files[j].throws}

\* line 31: utils.enhanceNativeLogger installs the interception
RunCall ==
  /\ runPc = "idle"
  /\ logInstalled' = TRUE
  /\ runPc' = "installed"
  /\ UNCHANGED <<asyncConcat, files, runParallel, fileState, collected, runResult, events, runStats,
                 splitVars, requestVars, testsVars, statsVars, suiteVars, caseVars>>

\* lines 33-35 and 159-163: concat calls runTest for every file at once,
\* concatSeries for the first file only; a run() that throws rejects the
\* promise run() awaits, and run() rejects without reaching line 37
RunStartFiles ==
  /\ runPc = "installed"
  /\ Len(files) > 0
  /\ IF startsAtOnce(runParallel)
     THEN /\ fileState' = [i \in 1..Len(files) |->
                             IF i \in StartedByConcat THEN "running" ELSE "waiting"]
          /\ events' = events \o [i \in 1..Cardinality(StartedByConcat) |-> Started(i)]
          /\ runPc' = IF \E i \in 1..Len(files) : files[i].throws
                      THEN "rejected" ELSE "running"
     ELSE /\ fileState' = [fileState EXCEPT ![1] = IF files[1].throws THEN "waiting"
                                                                      ELSE "running"]
          /\ events' = IF files[1].throws THEN events ELSE Append(events, Started(1))
          /\ runPc' = IF files[1].throws THEN "rejected" ELSE "running"
  /\ UNCHANGED <<asyncConcat, files, runParallel, logInstalled, collected, runResult, runStats,
                 splitVars, requestVars, testsVars, statsVars, suiteVars, caseVars>>

\* lines 160-162: the run of file i ends and its callback delivers
\* runner.stats, also when run() has rejected meanwhile; concatSeries then
\* starts the next file from within that callback, where a throw of run()
\* escapes into Mocha and the promise run() awaits never settles
FileComplete(i) ==
  /\ fileState[i] = "running"
  /\ collected' = [collected EXCEPT ![i] = files[i].stats]
  /\ IF ~startsAtOnce(runParallel) /\ i < Len(files)
     THEN IF files[i + 1].throws
          THEN /\ fileState' = [fileState EXCEPT ![i] = "done"]
               /\ events' = Append(events, Completed(i))
               /\ runPc' = "stalled"
          ELSE /\ fileState' = [fileState EXCEPT ![i] = "done", ![i + 1] = "running"]
               /\ events' = events \o <<Completed(i), Started(i + 1)>>
               /\ UNCHANGED runPc
     ELSE /\ fileState' = [fileState EXCEPT ![i] = "done"]
          /\ events' = Append(events, Completed(i))
          /\ UNCHANGED runPc
  /\ UNCHANGED <<asyncConcat, files, runParallel, logInstalled, runResult, runStats,
                 splitVars, requestVars, testsVars, statsVars, suiteVars, caseVars>>

\* lines 37-39: every file has called back (at once when there is no
\* file); run() resets the logger and returns the aggregate
RunFinish ==
  /\ \/ runPc = "running"
     \/ runPc = "installed" /\ Len(files) = 0
  /\ \A i \in 1..Len(files) : fileState[i] = "done"
  /\ logInstalled' = FALSE
  /\ runStats' = concatResults(asyncConcat, collected, DoneOrder(events))
  /\ runResult' = formatStats(runStats', runParallel)
  /\ runPc' = "returned"
  /\ UNCHANGED <<asyncConcat, files, runParallel, fileState, collected, events,
                 splitVars, requestVars, testsVars, statsVars, suiteVars, caseVars>>

(***************************************************************************)
(* formatStats() on its own: the function applied to a list of per-file    *)
(* stats and to a rearrangement of the same list.                          *)
(***************************************************************************)
MaxStats == 3

\* per-file stats records: two of the three-file scenario (equal durations,
\* different end times), one with pending and failed tests, one without the
\* summed fields and with duration 0, one without failures, times or duration
StatRecords ==
  { [start |-> 1, end |-> 5, suites |-> 1, tests |-> 2, passes |-> 2, pending |-> 0,
     failures |-> 0, duration |-> 100],
    [start |-> 2, end |-> 9, suites |-> 1, tests |-> 2, passes |-> 2, pending |-> 0,
     failures |-> 0, duration |-> 100],
    [start |-> 3, end |-> 4, suites |-> 2, tests |-> 3, passes |-> 1, pending |-> 1,
     failures |-> 1, duration |-> 40],
    [start |-> 4, end |-> 6, suites |-> Absent, tests |-> Absent, passes |-> Absent,
     pending |-> Absent, failures |-> 0, duration |-> 0],
    [start |-> Absent, end |-> Absent, suites |-> 1, tests |-> 1, passes |-> 1,
     pending |-> 0, failures |-> Absent, duration |-> Absent] }

\* the rearrangements of a list of n entries, as permutations of 1..n
Permutations(n) ==
  {p \in [1..n -> 1..n] : \A i, j \in 1..n : p[i] = p[j] => i = j}

Permuted(stats, p) == [i \in 1..Len(stats) |-> stats[p[i]]]

InitStats ==
  /\ fmtIn \in SeqsUpTo(StatRecords, MaxStats)
  /\ fmtPar \in BOOLEAN
  /\ fmtPerm = <<>>
  /\ fmtOut = NoStats
  /\ fmtPermOut = NoStats
  /\ fmtPc = "idle"

\* formatStats(stats, isParallel)
StatsCall ==
  /\ fmtPc = "idle"
  /\ fmtOut' = formatStats(fmtIn, fmtPar)
  /\ fmtPc' = "done"
  /\ UNCHANGED <<fmtIn, fmtPar, fmtPerm, fmtPermOut>>
  /\ UNCHANGED <<splitVars, requestVars, testsVars, runVars, suiteVars, caseVars>>

\* formatStats(rearranged, isParallel), the same records in another order
StatsCallPermuted ==
  /\ fmtPc = "done"
  /\ \E p \in Permutations(Len(fmtIn)) :
       /\ fmtPerm' = p
       /\ fmtPermOut' = formatStats(Permuted(fmtIn, p), fmtPar)
  /\ fmtPc' = "both"
  /\ UNCHANGED <<fmtIn, fmtPar, fmtOut>>
  /\ UNCHANGED <<splitVars, requestVars, testsVars, runVars, suiteVars, caseVars>>

(***************************************************************************)
(* suite()                                                                 *)
(*                                                                         *)
(* suite is an ordinary function whose hooks are arrow functions, so the   *)
(* this of lines 67, 73 and 77 is the receiver of the call of suite():     *)
(* the driver object when it is called as driver.case(...), tasty when it  *)
(* is called with tasty as its receiver.  Only tasty has a series.         *)
(***************************************************************************)
Receivers == {"driver", "tasty"}

\* the hooks in the order lines 62-78 register them
HookKinds == <<"before", "beforeEach", "afterEach", "after">>

\* lines 63, 67, 73, 77: the object whose series the hook calls
composerOf(kind) == IF kind = "before" THEN "tasty" ELSE "this"

\* whether the object a hook takes series from has one
HasSeries(via, receiver) == via = "tasty" \/ receiver = "tasty"

\* tasty.series(...actions)(): the actions it runs, one after the other
series(group) == group

\* lines 62-78: the hooks registered for the groups that are not empty
hooksOf(groups) ==
  LET kept == SelectSeq(HookKinds, LAMBDA kind : groups[kind] # <<>>)
  IN [h \in 1..Len(kept) |-> [kind |-> kept[h], via |-> composerOf(kept[h])]]

InitSuite ==
  /\ actions \in ActionLists
  /\ sets = EmptySets
  /\ splitPc = "idle"
  /\ thisArg \in Receivers
  /\ hooks = <<>>
  /\ invoked = <<>>
  /\ executed = <<>>
  /\ hookFailed = {}
  /\ suitePc = "idle"

\* lines 58-80: suite(title, actions, tasty) and the describe callback
SuiteCall ==
  /\ suitePc = "idle"
  /\ sets' = splitActions(actions)
  /\ hooks' = hooksOf(sets')
  /\ invoked' = sets'.tests
  /\ executed' = [h \in 1..Len(hooks') |-> <<>>]
  /\ suitePc' = "registered"
  /\ UNCHANGED <<actions, splitPc, thisArg, hookFailed>>
  /\ UNCHANGED <<requestVars, testsVars, runVars, statsVars, caseVars>>

\* Mocha runs a registered hook: lines 63, 67, 73, 77
HookRun(h) ==
  /\ suitePc = "registered"
  /\ h \notin hookFailed
  /\ executed[h] = <<>>
  /\ IF HasSeries(hooks[h].via, thisArg)
     THEN /\ executed' = [executed EXCEPT ![h] = series(sets[hooks[h].kind])]
          /\ UNCHANGED hookFailed
     ELSE /\ hookFailed' = hookFailed \cup {h}
          /\ UNCHANGED executed
  /\ UNCHANGED <<splitVars, thisArg, hooks, invoked, suitePc>>
  /\ UNCHANGED <<requestVars, testsVars, runVars, statsVars, caseVars>>

(***************************************************************************)
(* test()                                                                  *)
(***************************************************************************)
\* the entries an assertions mapping is made of
CaseEntries ==
  { [key |-> "status", value |-> Num("200")],
    [key |-> "data", value |-> Str("a")],
    [key |-> "foo", value |-> Num("1")] }

\* the assertions mappings: every choice of entries in every key order
CaseAssertionMaps ==
  {m \in SeqsUpTo(CaseEntries, Cardinality(CaseEntries)) :
     \A i, j \in 1..Len(m) : m[i].key = m[j].key => i = j}

\* line 87: resource[assertion](assertions[assertion], tasty.context)
caseCall(key, value) == [method |-> key, expected |-> value]

\* Object.keys(assertions).forEach(...) with a callback whose throw is
\* swallowed, so that the loop goes on to the next key
RECURSIVE runCaseContinuing(_, _, _)
runCaseContinuing(rsrc, k, log) ==
  IF k > Len(caseAssertions)
  THEN [verdict |-> IF \E n \in 1..Len(log) : log[n].outcome = "throws"
                    THEN "fail" ELSE "pass",
        log |-> log]
  ELSE LET c == caseCall(caseAssertions[k].key, caseAssertions[k].value)
           entry == [key |-> caseAssertions[k].key, method |-> c.method,
                     expected |-> c.expected, context |-> caseContext,
                     outcome |-> invoke(rsrc, c.method, c.expected, caseContext)]
       IN runCaseContinuing(rsrc, k + 1, Append(log, entry))

\* lines 86-88: Object.keys(assertions).forEach(...), from the k-th key on;
\* a throw of the callback leaves forEach and rejects the test body
RECURSIVE runCase(_, _, _)
runCase(rsrc, k, log) ==
  IF k > Len(caseAssertions) THEN [verdict |-> "pass", log |-> log]
  ELSE LET c == caseCall(caseAssertions[k].key, caseAssertions[k].value)
           out == invoke(rsrc, c.method, c.expected, caseContext)
           entry == [key |-> caseAssertions[k].key, method |-> c.method,
                     expected |-> c.expected, context |-> caseContext,
                     outcome |-> out]
       IN IF out = "throws"
          THEN [verdict |-> "fail", log |-> Append(log, entry)]
          ELSE runCase(rsrc, k + 1, Append(log, entry))

InitCase ==
  /\ caseAssertions \in CaseAssertionMaps
  /\ caseContext = [token |-> Str("t")]
  /\ casePc = "idle"
  /\ caseLog = <<>>
  /\ caseVerdict = "none"
  /\ mock \in {Undefined, Str("P")}
  /\ capture = Undefined
  /\ resource = NoResource
  /\ reqPc = "idle"
  /\ reqParams = Undefined
  /\ transport \in [{"/"} -> TransportOutcomes]
  /\ transportCalls = <<>>
  /\ reqError = Undefined

\* line 84, up to the await: Mocha runs the test body, which calls
\* request(tasty.context)
CaseStart ==
  /\ casePc = "idle"
  /\ LET params == getParams(caseContext)
     IN /\ reqParams' = params
        /\ IF UsesMock(mock)
           THEN /\ resource' = withResponse(resource, capture, mockRequest(params, mock))
                /\ reqPc' = "resolved"
                /\ UNCHANGED transportCalls
           ELSE /\ transportCalls' = Append(transportCalls, params)
                /\ reqPc' = "awaiting"
                /\ UNCHANGED resource
  /\ casePc' = "awaiting"
  /\ UNCHANGED <<caseAssertions, caseContext, caseLog, caseVerdict>>
  /\ UNCHANGED <<mock, capture, transport, reqError>>
  /\ UNCHANGED <<splitVars, testsVars, runVars, statsVars, suiteVars>>

\* lines 47-54 within the test: the Transport call settles and the
\* operation resumes, writes the Resource and resolves
CaseRequestSettle ==
  /\ casePc = "awaiting"
  /\ reqPc = "awaiting"
  /\ LET r == realRequest(transport[reqParams.url])
     IN IF r.threw
        THEN /\ reqPc' = "rejected"
             /\ reqError' = r.value
             /\ UNCHANGED resource
        ELSE /\ reqPc' = "resolved"
             /\ resource' = withResponse(resource, capture, r.value)
             /\ UNCHANGED reqError
  /\ UNCHANGED caseVars
  /\ UNCHANGED <<mock, capture, reqParams, transport, transportCalls>>
  /\ UNCHANGED <<splitVars, testsVars, runVars, statsVars, suiteVars>>

\* lines 84-88: the test body resumes from its await, a turn after the
\* operation settled, and runs the assertions
CaseResume ==
  /\ casePc = "awaiting"
  /\ reqPc \in {"resolved", "rejected"}
  /\ IF reqPc = "rejected"
     THEN /\ caseVerdict' = "fail"
          /\ UNCHANGED caseLog
     ELSE LET out == runCase(resource, 1, <<>>)
          IN /\ caseLog' = out.log
             /\ caseVerdict' = out.verdict
  /\ casePc' = "done"
  /\ UNCHANGED <<caseAssertions, caseContext>>
  /\ UNCHANGED <<requestVars, splitVars, testsVars, runVars, statsVars, suiteVars>>

(***************************************************************************)
(* The components at rest                                                  *)
(***************************************************************************)
StatsIdle ==
  /\ fmtIn = <<>> /\ fmtPar = FALSE /\ fmtPerm = <<>> /\ fmtOut = NoStats
  /\ fmtPermOut = NoStats /\ fmtPc = "idle"

SuiteIdle ==
  /\ thisArg = "driver" /\ hooks = <<>> /\ invoked = <<>> /\ executed = <<>>
  /\ hookFailed = {} /\ suitePc = "idle"

CaseIdle ==
  /\ caseAssertions = <<>> /\ caseContext = EmptyContext
  /\ casePc = "idle" /\ caseLog = <<>> /\ caseVerdict = "none"

(***************************************************************************)
(* Specifications: one per component, the other components at rest         *)
(***************************************************************************)
NextSplit == SplitActions
InitSplitOnly ==
  InitSplit /\ RequestIdle /\ TestsIdle /\ RunIdle /\ StatsIdle /\ SuiteIdle /\ CaseIdle
SpecSplit == InitSplitOnly /\ [][NextSplit]_vars

NextRequest ==
  \/ RequestCall
  \/ RequestResume
InitRequestOnly ==
  InitRequest /\ SplitIdle /\ TestsIdle /\ RunIdle /\ StatsIdle /\ SuiteIdle /\ CaseIdle
SpecRequest == InitRequestOnly /\ [][NextRequest]_vars

NextTests ==
  \/ \E par \in BOOLEAN : TestsCall(par)
  \/ HookStart
  \/ \E i \in 1..Len(suites) : HookRequestSettle(i)
  \/ HookDone
  \/ ParallelTest
  \/ SeriesTestStart
  \/ SeriesRequestSettle
  \/ SeriesTestResume
  \/ TestsFinish
InitTestsOnly == InitTests /\ SplitIdle /\ RunIdle /\ StatsIdle /\ SuiteIdle /\ CaseIdle
SpecTests == InitTestsOnly /\ [][NextTests]_vars

NextRun ==
  \/ RunCall
  \/ RunStartFiles
  \/ \E i \in 1..Len(files) : FileComplete(i)
  \/ RunFinish
InitRunOnly ==
  InitRun /\ SplitIdle /\ RequestIdle /\ TestsIdle /\ StatsIdle /\ SuiteIdle /\ CaseIdle
SpecRun == InitRunOnly /\ [][NextRun]_vars

NextStats ==
  \/ StatsCall
  \/ StatsCallPermuted
InitStatsOnly ==
  InitStats /\ SplitIdle /\ RequestIdle /\ TestsIdle /\ RunIdle /\ SuiteIdle /\ CaseIdle
SpecStats == InitStatsOnly /\ [][NextStats]_vars

NextSuite ==
  \/ SuiteCall
  \/ \E h \in 1..Len(hooks) : HookRun(h)
InitSuiteOnly ==
  InitSuite /\ RequestIdle /\ TestsIdle /\ RunIdle /\ StatsIdle /\ CaseIdle
SpecSuite == InitSuiteOnly /\ [][NextSuite]_vars

NextCase ==
  \/ CaseStart
  \/ CaseRequestSettle
  \/ CaseResume
InitCaseOnly ==
  InitCase /\ SplitIdle /\ TestsIdle /\ RunIdle /\ StatsIdle /\ SuiteIdle
SpecCase == InitCaseOnly /\ [][NextCase]_vars

(***************************************************************************)
(* Properties of splitActions                                              *)
(***************************************************************************)
\* the places (group, index) of the returned groups that hold action a
\* the entries of the list at the places a group was assigned, in order
RECURSIVE Picked(_, _, _)
Picked(list, assigned, g) ==
  IF list = <<>> THEN <<>>
  ELSE (IF Head(assigned) = g THEN <<Head(list)>> ELSE <<>>)
       \o Picked(Tail(list), Tail(assigned), g)

\* the places that hold the object a, in the groups
Places(a) ==
  {p \in UNION {{g} \X (1..Len(sets[g])) : g \in GroupNames} : sets[p[1]][p[2]] = a}

\* C3 (as amended): every place of the input list goes to exactly one
\* group exactly once, an object that stands at several places once for
\* each of them; no group holds an element that was not in the input, and
\* within each group the entries keep their original relative order.
C3_PlacesPartition ==
  splitPc = "done" =>
    \E assigned \in [1..Len(actions) -> GroupNames] :
      \A g \in GroupNames : sets[g] = Picked(actions, assigned, g)

\* one object at two places, before and after a test action, went to two
\* groups
C3_Witness ==
  /\ splitPc = "done"
  /\ Len(actions) >= 3
  /\ sets.tests # <<>>
  /\ \E a \in Range(sets.before) : a \in Range(sets.after)

\* C3 as stated: every input action appears in exactly one group exactly
\* once, no group holds an element that was not in the input, and within
\* each group the actions keep their original relative order.
C3_Partition ==
  splitPc = "done" =>
    /\ \A k \in 1..Len(actions) : Cardinality(Places(actions[k])) = 1
    /\ \A g \in GroupNames : \A j \in 1..Len(sets[g]) : sets[g][j] \in Range(actions)
    /\ \A g \in GroupNames : \E assigned \in [1..Len(actions) -> BOOLEAN] :
         sets[g] = Picked(actions, assigned, TRUE)

\* index of the first test action of the input, Len + 1 when there is none
FirstTest ==
  LET T == {k \in 1..Len(actions) : IsTestAction(actions[k])}
  IN IF T = {} THEN Len(actions) + 1 ELSE CHOOSE k \in T : \A m \in T : k <= m

\* C4: a non-test action before the first test action goes to beforeEach
\* if it is an array and to before otherwise; one anywhere after the first
\* test action goes to afterEach if it is an array and to after otherwise;
\* with no test action, tests, after and afterEach are empty.
C4_Placement ==
  splitPc = "done" =>
    /\ LET placed == [k \in 1..Len(actions) |->
                        IF IsTestAction(actions[k]) THEN "tests"
                        ELSE IF k < FirstTest
                        THEN (IF actions[k].isArray THEN "beforeEach" ELSE "before")
                        ELSE (IF actions[k].isArray THEN "afterEach" ELSE "after")]
       IN \A g \in GroupNames \ {"tests"} : sets[g] = Picked(actions, placed, g)
    /\ FirstTest > Len(actions) =>
         sets.tests = <<>> /\ sets.after = <<>> /\ sets.afterEach = <<>>

\* an each-hook between two test actions went to afterEach
C4_Witness ==
  /\ splitPc = "done"
  /\ \E i, k, j \in 1..Len(actions) :
       /\ i < k /\ k < j
       /\ IsTestAction(actions[i]) /\ IsTestAction(actions[j])
       /\ actions[k].isArray
       /\ actions[k] \in Range(sets.afterEach)

\* C5 (as amended): an action is put into tests if and only if it is a
\* function whose name is test or tests, whichever code produced it.
C5_TestsByName ==
  splitPc = "done" =>
    \A k \in 1..Len(actions) :
      actions[k] \in Range(sets.tests)
        <=> (actions[k].type = "function" /\ actions[k].name \in {"test", "tests"})

\* a caller's own hook named test was classified as a test, one named hook
\* was not, and a function named tests was
C5_Witness ==
  /\ splitPc = "done"
  /\ \E a \in Range(sets.tests) : ~a.builder
  /\ \E a \in Range(sets.tests) : a.name = "tests"
  /\ \E a \in Range(actions) : a.type = "function" /\ a \notin Range(sets.tests)

\* C5 as stated: an action is in tests if and only if one of the two
\* builders produced it.
C5_TestsByOrigin ==
  splitPc = "done" =>
    \A k \in 1..Len(actions) : actions[k] \in Range(sets.tests) <=> actions[k].builder

(***************************************************************************)
(* Properties of request()                                                 *)
(***************************************************************************)
Settled == reqPc \in {"resolved", "rejected"}

\* C7 (as amended): for every truthy mock payload P, invoking the returned
\* operation yields a Resource with res.data equal to P and the Transport
\* is never invoked.
C7_TruthyMockRoundTrip ==
  (reqPc # "idle" /\ Truthy(mock)) =>
    /\ reqPc = "resolved"
    /\ resource.res.type = "object"
    /\ resource.res.data = mock
    /\ transportCalls = <<>>

C7_Witness ==
  /\ reqPc = "resolved" /\ Truthy(mock) /\ resource.res.type = "object"
  /\ resource.res.data = mock /\ transportCalls = <<>>

\* C7 as stated: for every mock payload P supplied, falsy ones included,
\* res.data equals P and the Transport is never invoked.
C7_AnyMockRoundTrip ==
  (reqPc # "idle" /\ mock # Undefined) =>
    /\ reqPc = "resolved"
    /\ resource.res.type = "object"
    /\ resource.res.data = mock
    /\ transportCalls = <<>>

\* C8: with no mock, when the Transport fails with an error that carries a
\* response, the operation does not reject: it resolves with a Resource
\* whose res is that response.
C8_ErrorResponseRecovered ==
  (/\ Settled /\ mock = Undefined
   /\ transport["/"].kind = "error"
   /\ transport["/"].value.response # Undefined) =>
    /\ reqPc = "resolved"
    /\ resource.res = transport["/"].value.response

C8_Witness ==
  /\ reqPc = "resolved" /\ mock = Undefined
  /\ transport["/"].kind = "error"
  /\ transport["/"].value.response # Undefined
  /\ resource.res = transport["/"].value.response
  /\ Len(transportCalls) = 1

\* C9 as stated: with no mock, when the Transport fails with an error that
\* carries no response, the operation rejects with that error.
C9_BareErrorPropagates ==
  (/\ Settled /\ mock = Undefined
   /\ transport["/"].kind = "error"
   /\ transport["/"].value.response = Undefined) =>
    /\ reqPc = "rejected"
    /\ reqError = transport["/"].value

(***************************************************************************)
(* Properties of tests()                                                   *)
(***************************************************************************)
\* C1 as stated: test i passes in parallel mode if and only if it passes
\* in series mode, over the same suiteParams, request function and
\* assertions.
C1_SameVerdict ==
  modesRun = {"parallel", "series"} =>
    \A i \in 1..Len(suites) :
      (verdicts.parallel[i] = "pass") <=> (verdicts.series[i] = "pass")

\* the response of the request issued for the i-th parameter
ResponseOf(i) ==
  LET params == getParams(WithSuite(tastyContext, suites[i]))
  IN IF UsesMock(mock) THEN mockRequest(params, mock)
     ELSE IF transport[params.url].kind = "ok" THEN transport[params.url].value
     ELSE transport[params.url].value.response

\* C2 as stated: in parallel mode, once the setup hook has completed, the
\* Resource test i asserts against holds the response of the request
\* issued for suiteParams[i], whatever the completion order.
C2_OwnResponse ==
  (isParallel /\ testsPc = "tests") =>
    \A i \in 1..Len(suites) : Deref(responses[i]).res = ResponseOf(i)

\* the value the assertions mapping holds under a key
AssertionOf(key) == (CHOOSE p \in Range(assertions) : p.key = key).value

\* C6 as stated: in series mode the test body calls the Resource operation
\* named by each key, passing assertions[key], template-resolved against
\* { suite: param } when it is a string.
C6_SeriesCallsByKey ==
  \A n \in 1..Len(callsLog) :
    ~callsLog[n].par =>
      /\ callsLog[n].method = callsLog[n].key
      /\ callsLog[n].expected =
           resolveAssertion(AssertionOf(callsLog[n].key), suites[callsLog[n].test])

(***************************************************************************)
(* Properties of run()                                                     *)
(***************************************************************************)
\* C10 as stated: there is no terminated run() after which the log
\* interception is still installed, whether run() returned or failed.
C10_LogRestored ==
  runPc \in {"returned", "rejected"} => ~logInstalled

\* the per-file stats in declared order
DeclaredStats == [i \in 1..Len(files) |-> files[i].stats]

\* C11: with isParallel = false, run() executes the files strictly one at
\* a time in declared order: the run of file i+1 is not started before the
\* completion callback of file i has fired, and the stats list passed to
\* formatStats is in declared order.
C11_SeriesOneAtATime ==
  ~runParallel =>
    /\ \A n \in 1..Len(events) :
         (events[n].ev = "start" /\ events[n].file > 1) =>
           \E m \in 1..(n - 1) : events[m] = Completed(events[n].file - 1)
    /\ Cardinality({i \in 1..Len(files) : fileState[i] = "running"}) <= 1
    /\ runPc = "returned" => runStats = DeclaredStats

C11_Witness ==
  /\ ~runParallel /\ runPc = "returned"
  /\ Len(files) >= 2
  /\ files[1].stats # files[2].stats
  /\ events = <<Started(1), Completed(1), Started(2), Completed(2)>>
               \o SubSeq(events, 5, Len(events))

RECURSIVE SumOf(_, _)
\* the sum of a field over the records, an absent field counting as 0
SumOf(stats, field) ==
  IF stats = <<>> THEN 0
  ELSE (IF Head(stats)[field] = Absent THEN 0 ELSE Head(stats)[field])
       + SumOf(Tail(stats), field)

SummedFields == {"suites", "tests", "passes", "pending"}

\* C13: for every list of per-file stats and every rearrangement of it, in
\* both modes, formatStats yields the same suites, tests, passes and
\* pending, each the sum of that field over the files, an absent field
\* counting as 0.
C13_SumsWhateverTheOrder ==
  /\ fmtPc \in {"done", "both"} =>
       \A f \in SummedFields : fmtOut[f] = SumOf(fmtIn, f)
  /\ fmtPc = "both" =>
       \A f \in SummedFields :
         /\ fmtPermOut[f] = fmtOut[f]
         /\ fmtPermOut[f] = SumOf(Permuted(fmtIn, fmtPerm), f)

\* a list with a record lacking the summed fields, handed over in another order
C13_Witness ==
  /\ fmtPc = "both" /\ fmtPar
  /\ Len(fmtIn) = 3
  /\ \E i \in 1..3 : fmtIn[i].tests = Absent
  /\ \E i \in 1..3 : fmtIn[i].pending = 1
  /\ Permuted(fmtIn, fmtPerm) # fmtIn
  /\ fmtPermOut.tests = fmtOut.tests /\ fmtOut.tests >= 3

\* C14: in sequential mode, for a non-empty list, end is the end of the
\* last file (0 when that record has none) and duration is the sum of the
\* per-file durations followed by "ms"; for an empty list start and end are
\* 0 and duration is "0ms".
C14_SeriesEndAndDuration ==
  (fmtPc \in {"done", "both"} /\ ~fmtPar) =>
    IF fmtIn # <<>>
    THEN /\ fmtOut.end = (IF fmtIn[Len(fmtIn)].end = Absent THEN 0
                          ELSE fmtIn[Len(fmtIn)].end)
         /\ fmtOut.duration = ToString(SumOf(fmtIn, "duration")) \o "ms"
    ELSE fmtOut.start = 0 /\ fmtOut.end = 0 /\ fmtOut.duration = "0ms"

\* three files of duration 100, the last ending at another time than the first
C14_Witness ==
  /\ fmtPc = "done" /\ ~fmtPar
  /\ Len(fmtIn) = 3
  /\ \A i \in 1..3 : fmtIn[i].duration = 100
  /\ fmtIn[1].end # fmtIn[3].end
  /\ fmtOut.duration = "300ms" /\ fmtOut.tests = 6
  /\ fmtOut.end = fmtIn[3].end

DurationOf(stat) == IF stat.duration = Absent THEN 0 ELSE stat.duration

MaxDuration(stats) ==
  CHOOSE d \in {DurationOf(stats[i]) : i \in 1..Len(stats)} :
    \A i \in 1..Len(stats) : DurationOf(stats[i]) <= d

\* C15: in parallel mode, for a non-empty list, duration is the largest
\* single-file duration followed by "ms", and end is the end time of a file
\* whose duration is that largest one.
C15_ParallelMaxAndItsEnd ==
  (fmtPc \in {"done", "both"} /\ fmtPar /\ fmtIn # <<>>) =>
    /\ fmtOut.duration = ToString(MaxDuration(fmtIn)) \o "ms"
    /\ \E i \in 1..Len(fmtIn) :
         /\ DurationOf(fmtIn[i]) = MaxDuration(fmtIn)
         /\ fmtOut.end = (IF fmtIn[i].end = Absent THEN 0 ELSE fmtIn[i].end)

\* tests = passes + pending + failures on numbers
Balanced(stat) ==
  /\ \A f \in {"tests", "passes", "pending", "failures"} : stat[f] \notin {Absent, NaN}
  /\ stat.tests = stat.passes + stat.pending + stat.failures

\* C18: if every per-file record has tests = passes + pending + failures,
\* so has the aggregate formatStats returns, in both modes and for every
\* list of files.
C18_BalancePreserved ==
  (\A i \in 1..Len(fmtIn) : Balanced(fmtIn[i])) =>
    /\ fmtPc \in {"done", "both"} => Balanced(fmtOut)
    /\ fmtPc = "both" => Balanced(fmtPermOut)

\* balanced records with failed and pending tests, aggregated in parallel mode
C18_Witness ==
  /\ fmtPc = "done" /\ fmtPar
  /\ Len(fmtIn) = 3
  /\ \A i \in 1..3 : Balanced(fmtIn[i])
  /\ fmtOut.failures = 2 /\ fmtOut.pending = 2 /\ fmtOut.tests = 8

(***************************************************************************)
(* Properties of suite() and test()                                        *)
(***************************************************************************)
\* C16: for each of the four hook groups that is not empty, suite()
\* registers one hook which, when Mocha runs it, executes every action of
\* the group in declared order through tasty's sequential composer; for an
\* empty group no hook is registered.
C16_HooksRunTheirGroup ==
  suitePc = "registered" =>
    /\ \A n \in 1..Len(HookKinds) :
         Cardinality({h \in 1..Len(hooks) : hooks[h].kind = HookKinds[n]})
           = (IF sets[HookKinds[n]] # <<>> THEN 1 ELSE 0)
    /\ hookFailed = {}
    /\ \A h \in 1..Len(hooks) :
         executed[h] \in {<<>>, sets[hooks[h].kind]}

\* C17: in a test registered by test(), the assertions are invoked one at
\* a time in the key order of the mapping; once an operation throws, no
\* later assertion of the test is invoked and the test fails.
C17_HaltsAtFirstThrow ==
  casePc = "done" =>
    /\ Len(caseLog) <= Len(caseAssertions)
    /\ \A k \in 1..Len(caseLog) :
         /\ caseLog[k].key = caseAssertions[k].key
         /\ caseLog[k].method = caseAssertions[k].key
         /\ caseLog[k].expected = caseAssertions[k].value
         /\ caseLog[k].outcome = "throws" => k = Len(caseLog)
    /\ caseVerdict = "fail" <=>
         (caseLog # <<>> /\ caseLog[Len(caseLog)].outcome = "throws")
    /\ caseVerdict = "pass" <=>
         (Len(caseLog) = Len(caseAssertions)
          /\ \A k \in 1..Len(caseLog) : caseLog[k].outcome = "ok")

\* the second of three assertions threw: the third was not invoked
C17_Witness ==
  /\ casePc = "done"
  /\ Len(caseAssertions) = 3
  /\ Len(caseLog) = 2
  /\ caseLog[1].outcome = "ok"
  /\ caseLog[2].outcome = "throws"
  /\ caseVerdict = "fail"

(***************************************************************************)
(* Properties of what tests() registers and of the shared context          *)
(***************************************************************************)
\* the tests among what the current call registered
RegisteredTests == SelectSeq(registered, LAMBDA r : r.kind = "it")

\* whether the series test of parameter i has issued its request
SeriesTestStarted(i) ==
  \/ "series" \in modesRun
  \/ /\ testsPc = "tests" /\ ~isParallel
     /\ (i < cur \/ inv[i] # "none")

\* the requests the test of parameter i issued in a mode
RequestsOf(par, i) ==
  {n \in 1..Len(requestLog) : requestLog[n].par = par /\ requestLog[n].test = i}

\* C19: in both modes tests() registers exactly one test per element of
\* suiteParams, in order, the i-th titled with the title template resolved
\* against { suite: suiteParams[i] }; in series mode each test issues
\* exactly one request of its own; with no suiteParams no test is
\* registered and the setup hook of the parallel mode completes without a
\* request.
C19_OneTestPerParameter ==
  /\ (testsPc # "idle" \/ modesRun # {}) =>
       /\ Len(RegisteredTests) = Len(suites)
       /\ \A i \in 1..Len(suites) :
            RegisteredTests[i].title = evalTpl(title, [suite |-> suites[i]])
       /\ Len(registered) = Len(suites) + (IF isParallel THEN 1 ELSE 0)
  /\ \A i \in 1..Len(suites) :
       /\ Cardinality(RequestsOf(FALSE, i)) = (IF SeriesTestStarted(i) THEN 1 ELSE 0)
       /\ \A n \in RequestsOf(FALSE, i) : requestLog[n].context.suite = suites[i]
  /\ suites = <<>> =>
       /\ requestLog = <<>> /\ transportCalls = <<>>
       /\ testsPc = "hook" => ENABLED HookDone

\* the scenario of two parameters a and b in series mode
C19_Witness ==
  /\ "series" \in modesRun
  /\ ~isParallel
  /\ suites = <<Str("a"), Str("b")>>
  /\ registered = <<[kind |-> "it", title |-> "case a"], [kind |-> "it", title |-> "case b"]>>
  /\ Len(requestLog) = 2
  /\ requestLog[1].context.suite = Str("a")
  /\ requestLog[2].context.suite = Str("b")

\* C20: tests() never modifies the shared context: in both modes every
\* request receives a fresh copy of the context extended with the suite
\* key, so the shared context keeps its keys and values, no suite key is
\* left in it and the suite of one iteration is not visible to the request
\* of another.
C20_SharedContextUntouched ==
  [][/\ tastyContext' = tastyContext
     /\ \A n \in (Len(requestLog) + 1)..Len(requestLog') :
          requestLog'[n].context = WithSuite(tastyContext, suites[requestLog'[n].test])]_vars

\* both modes have issued the requests of two different parameters
C20_Witness ==
  /\ modesRun = {"parallel", "series"}
  /\ Len(suites) = 2 /\ suites[1] # suites[2]
  /\ Len(requestLog) = 4
  /\ \A n \in 1..4 : requestLog[n].context.suite = suites[requestLog[n].test]
  /\ "suite" \notin DOMAIN tastyContext
  /\ tastyContext.token = Str("t")

====
